---- MODULE Spec2Model ----
(***************************************************************************)
(* Sweet-shop server: session middleware, role and ownership guards, the   *)
(* catalog handlers (create / update / delete / purchase / restock /       *)
(* create category) and the store they read and write.                     *)
(*                                                                         *)
(* The store is the three tables of the Prisma client (user, category,     *)
(* sweet).  A handler is modelled twice, from the same pieces:             *)
(*   - whole, as one operator from (store, request) to (response, store),  *)
(*     used by Spec, where requests are handled one at a time;             *)
(*   - split at its awaits on the store (read, then write), used by the    *)
(*     specifications in which two requests are in flight.                 *)
(***************************************************************************)
EXTENDS Integers, Sequences, FiniteSets, TLC

VARIABLES users, categories, sweets, response, req, now

vars == <<users, categories, sweets, response, req, now>>

----------------------------------------------------------------------------
(* Bounds of the model *)

MaxSweets == 2      \* sweet rows ever created
MaxCats == 1        \* category rows ever created
MaxStock == 2       \* largest stock a create / update / restock may reach
MaxQty == 2         \* largest quantity in a purchase / restock body
MaxUsers == 4       \* user rows ever created
MaxTime == 2        \* the clock stops here

----------------------------------------------------------------------------
(* Values *)

Null == [k |-> "null"]

\* Category names and sweet names are strings: sequences of characters.
CategoryNames == { <<"C", "a">>, <<"c", "A">>, <<"G", "u">> }
SweetName == <<"G", "u", "m">>
OtherSweetName == <<"B", "a", "r">>

\* String.prototype.toLowerCase, character by character.
LowerChar(c) ==
  CASE c = "A" -> "a" [] c = "B" -> "b" [] c = "C" -> "c"
    [] c = "G" -> "g" [] c = "U" -> "u" [] OTHER -> c

toLowerCase(s) == [i \in DOMAIN s |-> LowerChar(s[i])]

\* Passwords are strings; bcrypt.hash keeps the password out of its result
\* and bcrypt.compare tells whether a hash was made from a password.
GoodPassword == <<"p", "a", "s", "s", "w", "o", "r", "d">>
OtherPassword == <<"1", "2", "3", "4", "5", "6", "7", "8">>
ShortPassword == <<"p", "w">>

bcryptHash(password) == [k |-> "bcrypt", of |-> password]
bcryptCompare(password, hashed) == hashed = bcryptHash(password)

\* The users table.  Ids are positions; the rows are there before any
\* catalog request is made (registered earlier).
\* E-mail addresses and user names are strings too.
EmailA == <<"a", "@", "x">>
EmailB == <<"b", "@", "x">>
EmailU == <<"u", "@", "x">>
EmailN == <<"n", "@", "x">>
NotAnEmail == <<"n", "o">>
UserName == <<"N">>

UserRow(email, role, password) ==
  [email |-> email, name |-> UserName, role |-> role,
   password |-> bcryptHash(password)]

SeedUsers ==
  << UserRow(EmailA, "ADMIN", GoodPassword),
     UserRow(EmailB, "ADMIN", GoodPassword),
     UserRow(EmailU, "USER", GoodPassword) >>

UserIds == 1 .. (Len(SeedUsers) + 1)     \* the last one names no user

\* The Cookie header, as far as requireAuth reads it: no auth-token entry, or
\* an entry whose token verifies under SECRET (sig = "ok") or does not.
NoCookie == [k |-> "none"]
Token(sig, sub) == [k |-> "token", sig |-> sig, sub |-> sub]
Cookies ==
  {NoCookie, Token("forged", 1)} \cup { Token("ok", u) : u \in UserIds }

\* jwt.sign({ sub, email }, secret): no expiresIn, so no exp in the token.
jwtSign(sub) == Token("ok", sub)

\* A token signed with the secret that does carry an exp.
Expiring(sub, exp) == [k |-> "token", sig |-> "ok", sub |-> sub, exp |-> exp]

\* jwt.verify(token, secret): the signature, then exp when the token has one.
jwtVerify(token) ==
  /\ token.sig = "ok"
  /\ "exp" \in DOMAIN token => now < token.exp

SweetIds == 1 .. (MaxSweets + 1)         \* the last one names no sweet
CategoryIds == 1 .. (MaxCats + 1)        \* the last one names no category

\* A `quantity` field of a JSON body, by what z.coerce.number() makes of it.
Qty(k, v) == [k |-> k, v |-> v]
QuantityInputs ==
  { Qty("missing", 0), Qty("text", 0), Qty("fraction", 1) }
    \cup { Qty("number", n) : n \in -1 .. MaxQty }
    \cup { Qty("numeric-string", 1), Qty("boolean", 1) }

----------------------------------------------------------------------------
(* The store: prisma.user, prisma.category, prisma.sweet *)

Store == [users |-> users, categories |-> categories, sweets |-> sweets]

userFindUnique(db, id) ==
  IF id \in DOMAIN db.users THEN [id |-> id, role |-> db.users[id].role]
  ELSE Null

categoryFindUnique(db, id) ==
  IF id \in DOMAIN db.categories THEN db.categories[id] ELSE Null

categoryFindMany(db) == db.categories

categoryCreate(db, name) ==
  [db EXCEPT !.categories = Append(@, [name |-> name])]

sweetFindUnique(db, id) ==
  IF id \in DOMAIN db.sweets THEN db.sweets[id] ELSE Null

\* A deleted row leaves its id behind: ids are never given out again.
sweetCreate(db, data) == [db EXCEPT !.sweets = Append(@, data)]

sweetExists(db, id) == sweetFindUnique(db, id) # Null

\* { ...sweets[idx], ...data }
mergeData(row, data) ==
  [f \in DOMAIN row |-> IF f \in DOMAIN data THEN data[f] ELSE row[f]]

\* Variant: the update is applied to every row (no `where`).
sweetUpdate_everyRow(db, id, data) ==
  [db EXCEPT !.sweets =
     [i \in DOMAIN @ |-> IF @[i] = Null THEN Null ELSE mergeData(@[i], data)]]

sweetUpdate(db, id, data) ==
  [db EXCEPT !.sweets[id] = mergeData(@, data)]

sweetDelete(db, id) == [db EXCEPT !.sweets[id] = Null]

----------------------------------------------------------------------------
(* Responses *)

\* A response: the status, the `error` message or the fields of the `errors`
\* map, and for the list routes the ids of the rows returned.
Json(status, error) ==
  [status |-> status, error |-> error, errors |-> {}, sweets |-> {},
   categories |-> {}]
Invalid(fields) == [Json(400, "") EXCEPT !.errors = fields]
Listed(ids) == [Json(200, "") EXCEPT !.sweets = ids]
ListedCategories(ids) == [Json(200, "") EXCEPT !.categories = ids]
NoResponse == Json(0, "")

Answer(res, db) == [response |-> res, db |-> db]

----------------------------------------------------------------------------
(* middleware/auth.ts *)

\* Variant: the token is not verified.
requireAuth_anySignature(db, cookie) ==
  IF cookie = NoCookie
  THEN [ok |-> FALSE, response |-> Json(401, "Authentication required")]
  ELSE IF userFindUnique(db, cookie.sub) = Null
  THEN [ok |-> FALSE, response |-> Json(401, "Authentication required")]
  ELSE [ok |-> TRUE, user |-> userFindUnique(db, cookie.sub)]

\* Variant: the token's subject is not looked up; a verified token is enough.
requireAuth_noUserLookup(db, cookie) ==
  IF cookie = NoCookie
  THEN [ok |-> FALSE, response |-> Json(401, "Authentication required")]
  ELSE IF ~jwtVerify(cookie)
  THEN [ok |-> FALSE, response |-> Json(401, "Invalid authentication token")]
  ELSE [ok |-> TRUE, user |-> userFindUnique(db, cookie.sub)]

requireAuth(db, cookie) ==
  IF cookie = NoCookie
  THEN [ok |-> FALSE, response |-> Json(401, "Authentication required")]
  ELSE IF ~jwtVerify(cookie)
  THEN [ok |-> FALSE, response |-> Json(401, "Invalid authentication token")]
  ELSE IF userFindUnique(db, cookie.sub) = Null
  THEN [ok |-> FALSE, response |-> Json(401, "Authentication required")]
  ELSE [ok |-> TRUE, user |-> userFindUnique(db, cookie.sub)]

\* Variant: the role is not compared.
requireAdmin_anyUser(user) ==
  IF user = Null
  THEN [ok |-> FALSE, response |-> Json(403, "Admin privilege required")]
  ELSE [ok |-> TRUE]

requireAdmin(user) ==
  IF user = Null \/ user.role # "ADMIN"
  THEN [ok |-> FALSE, response |-> Json(403, "Admin privilege required")]
  ELSE [ok |-> TRUE]

----------------------------------------------------------------------------
(* QuantitySchema: z.coerce.number().int().positive() *)

coerceNumber(q) ==
  CASE q.k = "number" -> [nan |-> FALSE, int |-> TRUE, v |-> q.v]
    [] q.k = "numeric-string" -> [nan |-> FALSE, int |-> TRUE, v |-> q.v]
    [] q.k = "boolean" -> [nan |-> FALSE, int |-> TRUE, v |-> q.v]
    [] q.k = "fraction" -> [nan |-> FALSE, int |-> FALSE, v |-> q.v]
    [] OTHER -> [nan |-> TRUE, int |-> FALSE, v |-> 0]

\* Variant: zero passes as a quantity.
QuantitySchema_allowsZero(q) ==
  LET n == coerceNumber(q)
  IN IF ~n.nan /\ n.int /\ n.v >= 0
     THEN [success |-> TRUE, quantity |-> n.v]
     ELSE [success |-> FALSE, errors |-> {"quantity"}]

QuantitySchema(q) ==
  LET n == coerceNumber(q)
  IN IF ~n.nan /\ n.int /\ n.v > 0
     THEN [success |-> TRUE, quantity |-> n.v]
     ELSE [success |-> FALSE, errors |-> {"quantity"}]

----------------------------------------------------------------------------
(* JSON bodies of the sweet routes: a body is a function from its keys *)

EmptyBody == [f \in {} |-> 0]

SweetFields == {"name", "price", "stock", "categoryId"}

\* Variant: the keys the schema does not name are kept.
stripUnknown_keepsAll(body) == body

\* z.object strips the keys the schema does not name.
stripUnknown(body) == [f \in (DOMAIN body) \cap SweetFields |-> body[f]]

\* Variant: the stock of a body is not checked.
fieldValid_anyStock(f, v) ==
  CASE f = "name" -> Len(v) >= 1
    [] f = "price" -> v >= 0
    [] OTHER -> TRUE

\* The checks of one field, shared by CreateSweetSchema and UpdateSweetSchema:
\* name min(1), price nonnegative, stock int nonnegative.
fieldValid(f, v) ==
  CASE f = "name" -> Len(v) >= 1
    [] f = "price" -> v >= 0
    [] f = "stock" -> v >= 0
    [] OTHER -> TRUE

CreateBodies ==
  { [name |-> SweetName, price |-> 1, stock |-> s, categoryId |-> c] :
      s \in -1 .. MaxStock, c \in CategoryIds }
    \cup { EmptyBody }

UpdateBodies ==
  { EmptyBody, [price |-> 0 - 1], [userId |-> 2], [stock |-> 0, userId |-> 2] }
    \cup { [stock |-> s] : s \in -1 .. MaxStock }

CreateSweetSchema(body) ==
  LET o == stripUnknown(body)
      bad == { f \in SweetFields : f \notin DOMAIN o \/ ~fieldValid(f, o[f]) }
  IN IF bad = {} THEN [success |-> TRUE, data |-> o]
     ELSE [success |-> FALSE, errors |-> bad]

\* All fields optional; the refinement wants at least one key left.
UpdateSweetSchema(body) ==
  LET o == stripUnknown(body)
      bad == { f \in DOMAIN o : ~fieldValid(f, o[f]) }
      none == IF DOMAIN o = {} THEN {"_"} ELSE {}
  IN IF bad \cup none = {} THEN [success |-> TRUE, data |-> o]
     ELSE [success |-> FALSE, errors |-> bad \cup none]

\* CreateCategorySchema: name is a string of at least one character.
CreateCategorySchema(name) ==
  IF Len(name) >= 1 THEN [success |-> TRUE, name |-> name]
  ELSE [success |-> FALSE, errors |-> {"name"}]

----------------------------------------------------------------------------
(* The handlers, in three pieces each:                                     *)
(*   xEnter   the middleware chain and the payload validation, up to the   *)
(*            handler's first read of the catalog;                         *)
(*   xDecide  what the handler does with the row it read, up to its write; *)
(*   x        the whole handler on a store.                                *)
(* Enter and Decide answer [ok |-> FALSE, response] or [ok |-> TRUE, ...]. *)

Stop(res) == [ok |-> FALSE, response |-> res]

\* POST /api/sweets/:id/purchase
purchaseEnter(db, cookie, body) ==
  LET auth == requireAuth(db, cookie)
      parsed == QuantitySchema(body)
  IN IF ~auth.ok THEN auth
     ELSE IF ~parsed.success THEN Stop(Invalid(parsed.errors))
     ELSE [ok |-> TRUE, user |-> auth.user, quantity |-> parsed.quantity]

\* Variant: the stock comparison is off by one.
purchaseDecide_offByOne(sweet, quantity) ==
  IF sweet = Null THEN Stop(Json(404, "Not found"))
  ELSE IF sweet.stock + 1 < quantity
  THEN Stop(Json(400, "Insufficient stock"))
  ELSE [ok |-> TRUE, data |-> [stock |-> sweet.stock - quantity]]

purchaseDecide(sweet, quantity) ==
  IF sweet = Null THEN Stop(Json(404, "Not found"))
  ELSE IF sweet.stock < quantity THEN Stop(Json(400, "Insufficient stock"))
  ELSE [ok |-> TRUE, data |-> [stock |-> sweet.stock - quantity]]

purchase(db, cookie, id, body) ==
  LET e == purchaseEnter(db, cookie, body)
      d == purchaseDecide(sweetFindUnique(db, id), e.quantity)
  IN IF ~e.ok THEN Answer(e.response, db)
     ELSE IF ~d.ok THEN Answer(d.response, db)
     ELSE Answer(Json(200, ""), sweetUpdate(db, id, d.data))

\* POST /api/sweets/:id/restock
restockEnter(db, cookie, body) ==
  LET auth == requireAuth(db, cookie)
      admin == requireAdmin(auth.user)
      parsed == QuantitySchema(body)
  IN IF ~auth.ok THEN auth
     ELSE IF ~admin.ok THEN admin
     ELSE IF ~parsed.success THEN Stop(Invalid(parsed.errors))
     ELSE [ok |-> TRUE, user |-> auth.user, quantity |-> parsed.quantity]

\* Variant: the stock is set to the quantity instead of raised by it.
restockDecide_overwrites(sweet, user, quantity) ==
  IF sweet = Null THEN Stop(Json(404, "Not found"))
  ELSE IF sweet.userId # user.id
  THEN Stop(Json(403, "Only sweet owner allowed to restock"))
  ELSE [ok |-> TRUE, data |-> [stock |-> quantity]]

restockDecide(sweet, user, quantity) ==
  IF sweet = Null THEN Stop(Json(404, "Not found"))
  ELSE IF sweet.userId # user.id
  THEN Stop(Json(403, "Only sweet owner allowed to restock"))
  ELSE [ok |-> TRUE, data |-> [stock |-> sweet.stock + quantity]]

restock(db, cookie, id, body) ==
  LET e == restockEnter(db, cookie, body)
      d == restockDecide(sweetFindUnique(db, id), e.user, e.quantity)
  IN IF ~e.ok THEN Answer(e.response, db)
     ELSE IF ~d.ok THEN Answer(d.response, db)
     ELSE Answer(Json(200, ""), sweetUpdate(db, id, d.data))

\* PUT /api/sweets/:id
updateEnter(db, cookie, body) ==
  LET auth == requireAuth(db, cookie)
      admin == requireAdmin(auth.user)
      parsed == UpdateSweetSchema(body)
  IN IF ~auth.ok THEN auth
     ELSE IF ~admin.ok THEN admin
     ELSE IF ~parsed.success THEN Stop(Invalid(parsed.errors))
     ELSE [ok |-> TRUE, user |-> auth.user, data |-> parsed.data]

updateDecide(sweet, user) ==
  IF sweet = Null THEN Stop(Json(404, "Not found"))
  ELSE IF sweet.userId # user.id
  THEN Stop(Json(403, "Only sweet owner allowed to update"))
  ELSE [ok |-> TRUE]

\* Variant: the row is written before the owner is checked.
update_writesUnowned(db, cookie, id, body) ==
  LET e == updateEnter(db, cookie, body)
      d == updateDecide(sweetFindUnique(db, id), e.user)
  IN IF ~e.ok THEN Answer(e.response, db)
     ELSE IF sweetFindUnique(db, id) = Null THEN Answer(d.response, db)
     ELSE Answer(IF d.ok THEN Json(200, "") ELSE d.response,
                 sweetUpdate(db, id, e.data))

update(db, cookie, id, body) ==
  LET e == updateEnter(db, cookie, body)
      d == updateDecide(sweetFindUnique(db, id), e.user)
  IN IF ~e.ok THEN Answer(e.response, db)
     ELSE IF ~d.ok THEN Answer(d.response, db)
     ELSE Answer(Json(200, ""), sweetUpdate(db, id, e.data))

\* DELETE /api/sweets/:id
deleteEnter(db, cookie) ==
  LET auth == requireAuth(db, cookie)
      admin == requireAdmin(auth.user)
  IN IF ~auth.ok THEN auth
     ELSE IF ~admin.ok THEN admin
     ELSE [ok |-> TRUE, user |-> auth.user]

\* Variant: a missing row is answered like a row of somebody else.
deleteDecide_forbidsUnknown(sweet, user) ==
  IF sweet = Null \/ sweet.userId # user.id
  THEN Stop(Json(403, "Only sweet owner allowed to delete"))
  ELSE [ok |-> TRUE]

deleteDecide(sweet, user) ==
  IF sweet = Null THEN Stop(Json(404, "Not found"))
  ELSE IF sweet.userId # user.id
  THEN Stop(Json(403, "Only sweet owner allowed to delete"))
  ELSE [ok |-> TRUE]

delete(db, cookie, id) ==
  LET e == deleteEnter(db, cookie)
      d == deleteDecide(sweetFindUnique(db, id), e.user)
  IN IF ~e.ok THEN Answer(e.response, db)
     ELSE IF ~d.ok THEN Answer(d.response, db)
     ELSE Answer(Json(200, ""), sweetDelete(db, id))

\* POST /api/sweets
createEnter(db, cookie, body) ==
  LET auth == requireAuth(db, cookie)
      admin == requireAdmin(auth.user)
      parsed == CreateSweetSchema(body)
  IN IF ~auth.ok THEN auth
     ELSE IF ~admin.ok THEN admin
     ELSE IF ~parsed.success THEN Stop(Invalid(parsed.errors))
     ELSE [ok |-> TRUE, user |-> auth.user, data |-> parsed.data]

\* Variant: the category is not looked at.
createDecide_anyCategory(category, user, data) ==
  [ok |-> TRUE,
   data |-> [name |-> data.name, price |-> data.price,
             stock |-> data.stock, categoryId |-> data.categoryId,
             userId |-> user.id]]

createDecide(category, user, data) ==
  IF category = Null THEN Stop(Json(400, "Invalid category"))
  ELSE [ok |-> TRUE,
        data |-> [name |-> data.name, price |-> data.price,
                  stock |-> data.stock, categoryId |-> data.categoryId,
                  userId |-> user.id]]

create(db, cookie, body) ==
  LET e == createEnter(db, cookie, body)
      d == createDecide(categoryFindUnique(db, e.data.categoryId), e.user, e.data)
  IN IF ~e.ok THEN Answer(e.response, db)
     ELSE IF ~d.ok THEN Answer(d.response, db)
     ELSE Answer(Json(201, ""), sweetCreate(db, d.data))

\* POST /api/category
categoryEnter(db, cookie, name) ==
  LET auth == requireAuth(db, cookie)
      admin == requireAdmin(auth.user)
      parsed == CreateCategorySchema(name)
  IN IF ~auth.ok THEN auth
     ELSE IF ~admin.ok THEN admin
     ELSE IF ~parsed.success THEN Stop(Invalid(parsed.errors))
     ELSE [ok |-> TRUE, user |-> auth.user, name |-> parsed.name]

\* Variant: the names are compared as they are.
categoryDecide_caseSensitive(all, name) ==
  IF \E i \in DOMAIN all : all[i].name = name
  THEN Stop(Json(409, "Category already exists"))
  ELSE [ok |-> TRUE]

categoryDecide(all, name) ==
  IF \E i \in DOMAIN all : toLowerCase(all[i].name) = toLowerCase(name)
  THEN Stop(Json(409, "Category already exists"))
  ELSE [ok |-> TRUE]

createCategory(db, cookie, name) ==
  LET e == categoryEnter(db, cookie, name)
      d == categoryDecide(categoryFindMany(db), e.name)
  IN IF ~e.ok THEN Answer(e.response, db)
     ELSE IF ~d.ok THEN Answer(d.response, db)
     ELSE Answer(Json(201, ""), categoryCreate(db, e.name))

\* Variant: the rows of deleted sweets are listed too.
sweetFindMany_withDeleted(db) == DOMAIN db.sweets

\* GET /api/sweets
sweetFindMany(db) == { i \in DOMAIN db.sweets : db.sweets[i] # Null }

\* Variant: only the sweets of the requesting user are listed.
list_ownOnly(db, cookie) ==
  IF ~requireAuth(db, cookie).ok
  THEN Answer(requireAuth(db, cookie).response, db)
  ELSE Answer(
    Listed({ i \in sweetFindMany(db) :
               db.sweets[i].userId = requireAuth(db, cookie).user.id }), db)

list(db, cookie) ==
  LET auth == requireAuth(db, cookie)
  IN IF ~auth.ok THEN Answer(auth.response, db)
     ELSE Answer(Listed(sweetFindMany(db)), db)

\* GET /api/category
listCategories(db, cookie) ==
  LET auth == requireAuth(db, cookie)
  IN IF ~auth.ok THEN Answer(auth.response, db)
     ELSE Answer(ListedCategories(DOMAIN categoryFindMany(db)), db)

----------------------------------------------------------------------------
(* routes/auth.ts *)

\* prisma.user.findUnique({ where: { email } }): the row with its id, or null.
userFindByEmail(db, email) ==
  IF \E i \in DOMAIN db.users : db.users[i].email = email
  THEN LET i == CHOOSE i \in DOMAIN db.users : db.users[i].email = email
       IN [id |-> i] @@ db.users[i]
  ELSE Null

\* prisma.user.findUnique({ where: { id } }) with every column.
userFindById(db, id) ==
  IF id \in DOMAIN db.users THEN [id |-> id] @@ db.users[id] ELSE Null

userCreate(db, data) == [db EXCEPT !.users = Append(@, data)]

\* const { password: _pw, ...publicUser } = user
publicUser(user) == [f \in (DOMAIN user) \ {"password"} |-> user[f]]

\* prisma.sweet.findMany({ include: { user: true } }): the `user` of each
\* sweet in the body of GET /api/sweets, every column of the row.
listUsers(db, cookie) ==
  IF ~requireAuth(db, cookie).ok THEN {}
  ELSE { userFindById(db, db.sweets[i].userId) : i \in sweetFindMany(db) }

\* The Set-Cookie of a response: none, an auth-token, or the cookie cleared.
Cleared == [k |-> "cleared"]

\* A response of the auth routes: status and messages, the Set-Cookie and
\* the `user` of the body.
AuthJson(status, error, setCookie, user) ==
  [setCookie |-> setCookie, user |-> user] @@ Json(status, error)

AuthInvalid(fields) ==
  [AuthJson(400, "", NoCookie, Null) EXCEPT !.errors = fields]

\* z.string().email(), z.email(): something, an @, something.
isEmail(v) == \E i \in DOMAIN v : v[i] = "@" /\ 1 < i /\ i < Len(v)

RegisterBodies ==
  { [email |-> e, name |-> n, password |-> p] :
      e \in {EmailA, EmailN, NotAnEmail}, n \in {UserName, << >>},
      p \in {GoodPassword, ShortPassword} }
    \cup { [email |-> e, name |-> UserName, password |-> p, role |-> r] :
             e \in {EmailA, EmailN}, p \in {GoodPassword, ShortPassword},
             r \in {"USER", "ADMIN", "OWNER"} }
    \cup { EmptyBody }

LoginBodies ==
  { [email |-> e, password |-> p] :
      e \in {EmailA, EmailU, EmailN, NotAnEmail},
      p \in {GoodPassword, OtherPassword, << >>} }
    \cup { EmptyBody }

RegisterSchema(body) ==
  LET bad ==
        (IF "email" \in DOMAIN body /\ isEmail(body.email)
         THEN {} ELSE {"email"})
        \cup (IF "name" \in DOMAIN body /\ Len(body.name) >= 1
              THEN {} ELSE {"name"})
        \cup (IF "password" \in DOMAIN body /\ Len(body.password) >= 8
              THEN {} ELSE {"password"})
        \cup (IF "role" \in DOMAIN body /\ body.role \notin {"USER", "ADMIN"}
              THEN {"role"} ELSE {})
  IN IF bad = {}
     THEN [success |-> TRUE,
           data |-> [email |-> body.email, name |-> body.name,
                     password |-> body.password,
                     role |-> IF "role" \in DOMAIN body THEN body.role
                              ELSE "USER"]]
     ELSE [success |-> FALSE, errors |-> bad]

LoginSchema(body) ==
  LET bad ==
        (IF "email" \in DOMAIN body /\ isEmail(body.email)
         THEN {} ELSE {"email"})
        \cup (IF "password" \in DOMAIN body /\ Len(body.password) >= 1
              THEN {} ELSE {"password"})
  IN IF bad = {}
     THEN [success |-> TRUE,
           data |-> [email |-> body.email, password |-> body.password]]
     ELSE [success |-> FALSE, errors |-> bad]

\* Variant: the e-mail is not looked up before the user is created.
registerDecide_noLookup(existing, data) ==
  [ok |-> TRUE,
   data |-> [email |-> data.email, name |-> data.name,
             password |-> bcryptHash(data.password), role |-> data.role]]

\* POST /api/auth/register: what it does with the row it looked up.
registerDecide(existing, data) ==
  IF existing # Null
  THEN Stop(AuthJson(409, "A user with that email already exists",
                     NoCookie, Null))
  ELSE [ok |-> TRUE,
        data |-> [email |-> data.email, name |-> data.name,
                  password |-> bcryptHash(data.password), role |-> data.role]]

register(db, body) ==
  LET parsed == RegisterSchema(body)
      d == registerDecide(userFindByEmail(db, parsed.data.email), parsed.data)
      created == userCreate(db, d.data)
      user == userFindById(created, Len(created.users))
  IN IF ~parsed.success THEN Answer(AuthInvalid(parsed.errors), db)
     ELSE IF ~d.ok THEN Answer(d.response, db)
     ELSE Answer(AuthJson(201, "", jwtSign(user.id), publicUser(user)),
                 created)

\* Variant: the credentials are checked before the cookie is looked at.
login_credentialsFirst(db, cookie, body) ==
  LET parsed == LoginSchema(body)
      user == userFindByEmail(db, parsed.data.email)
  IN IF ~parsed.success THEN Answer(AuthInvalid(parsed.errors), db)
     ELSE IF user = Null
     THEN Answer(AuthJson(401, "Invalid credentials", NoCookie, Null), db)
     ELSE IF ~bcryptCompare(parsed.data.password, user.password)
     THEN Answer(AuthJson(401, "Invalid credentials", NoCookie, Null), db)
     ELSE IF cookie # NoCookie
     THEN Answer(AuthJson(400, "Already authenticated", NoCookie, Null), db)
     ELSE Answer(AuthJson(200, "", jwtSign(user.id), publicUser(user)), db)

\* POST /api/auth/login
login(db, cookie, body) ==
  LET parsed == LoginSchema(body)
      user == userFindByEmail(db, parsed.data.email)
  IN IF cookie # NoCookie
     THEN Answer(AuthJson(400, "Already authenticated", NoCookie, Null), db)
     ELSE IF ~parsed.success THEN Answer(AuthInvalid(parsed.errors), db)
     ELSE IF user = Null
     THEN Answer(AuthJson(401, "Invalid credentials", NoCookie, Null), db)
     ELSE IF ~bcryptCompare(parsed.data.password, user.password)
     THEN Answer(AuthJson(401, "Invalid credentials", NoCookie, Null), db)
     ELSE Answer(AuthJson(200, "", jwtSign(user.id), publicUser(user)), db)

\* GET /api/auth/me
me(db, cookie) ==
  IF cookie = NoCookie
  THEN Answer(AuthJson(401, "Not authenticated", NoCookie, Null), db)
  ELSE IF ~jwtVerify(cookie)
  THEN Answer(AuthJson(401, "Invalid token", NoCookie, Null), db)
  ELSE IF userFindById(db, cookie.sub) = Null
  THEN Answer(AuthJson(401, "User not found", NoCookie, Null), db)
  ELSE Answer(AuthJson(200, "", NoCookie,
                       publicUser(userFindById(db, cookie.sub))), db)

\* Variant: logging out deletes the account the cookie names, and with it
\* the accounts registered after it.
logout_removesUser(db, cookie) ==
  Answer(AuthJson(200, "", Cleared, Null),
         IF cookie # NoCookie /\ cookie.sub \in DOMAIN db.users
         THEN [db EXCEPT !.users = SubSeq(@, 1, cookie.sub - 1)]
         ELSE db)

\* POST /api/auth/logout
logout(db, cookie) == Answer(AuthJson(200, "", Cleared, Null), db)

----------------------------------------------------------------------------
(* GET /api/sweets/search *)

\* A query parameter as Express hands it over: absent, one string, or an
\* array (the key repeated).
QAbsent == [k |-> "absent"]
QStr(s) == [k |-> "string", s |-> s]
QArr == [k |-> "array"]

\* A value that may be `undefined`.
Undefined == [def |-> FALSE, v |-> 0]
Defined(v) == [def |-> TRUE, v |-> v]

RECURSIVE trimStart(_)
trimStart(s) ==
  IF s # << >> /\ Head(s) = " " THEN trimStart(Tail(s)) ELSE s

RECURSIVE trimEnd(_)
trimEnd(s) ==
  IF s # << >> /\ s[Len(s)] = " "
  THEN trimEnd(SubSeq(s, 1, Len(s) - 1)) ELSE s

trim(s) == trimEnd(trimStart(s))

Digits == <<"0", "1", "2", "3", "4", "5", "6", "7", "8", "9">>
IsDigit(c) == \E d \in DOMAIN Digits : Digits[d] = c
DigitValue(c) == (CHOOSE d \in DOMAIN Digits : Digits[d] = c) - 1

RECURSIVE decimal(_)
decimal(s) ==
  IF s = << >> THEN 0
  ELSE 10 * decimal(SubSeq(s, 1, Len(s) - 1)) + DigitValue(s[Len(s)])

\* The decimal rendering of a row id, as the `categoryId` column holds it.
idString(n) == << Digits[n + 1] >>

\* Number(v) on a query parameter: "" and blanks are 0, a decimal numeral is
\* its value, anything else (other text, an array of two) is NaN.
NaN == [nan |-> TRUE, v |-> 0]
Num(n) == [nan |-> FALSE, v |-> n]
Number(v) ==
  IF v.k # "string" THEN NaN
  ELSE LET t == trim(v.s)
       IN IF t = << >> THEN Num(0)
          ELSE IF \A i \in DOMAIN t : IsDigit(t[i]) THEN Num(decimal(t))
          ELSE IF /\ Head(t) = "-" /\ Len(t) > 1
                  /\ \A i \in DOMAIN Tail(t) : IsDigit(Tail(t)[i])
          THEN Num(0 - decimal(Tail(t)))
          ELSE NaN

\* z.string().trim().transform(v => v === "" ? undefined : v).optional()
textFilter(v) ==
  IF v = QAbsent THEN [issue |-> "", value |-> Undefined]
  ELSE IF v.k # "string" THEN [issue |-> "invalid_type", value |-> Undefined]
  ELSE IF trim(v.s) = << >> THEN [issue |-> "", value |-> Undefined]
  ELSE [issue |-> "", value |-> Defined(trim(v.s))]

\* z.coerce.number().nonnegative().optional()
priceFilter(v) ==
  IF v = QAbsent THEN [issue |-> "", value |-> Undefined]
  ELSE IF Number(v).nan THEN [issue |-> "invalid_type", value |-> Undefined]
  ELSE IF Number(v).v < 0
  THEN [issue |-> "too_small", value |-> Defined(Number(v).v)]
  ELSE [issue |-> "", value |-> Defined(Number(v).v)]

QueryFields == {"name", "categoryId", "priceMin", "priceMax"}

\* Variant: the issue of the refinement goes under priceMax.
SearchQuery_otherPath(query) ==
  LET f == [name |-> textFilter(query.name),
            categoryId |-> textFilter(query.categoryId),
            priceMin |-> priceFilter(query.priceMin),
            priceMax |-> priceFilter(query.priceMax)]
      bad == { k \in QueryFields : f[k].issue # "" }
      aborted == \E k \in QueryFields : f[k].issue = "invalid_type"
      ordered == \/ ~f.priceMin.value.def
                 \/ ~f.priceMax.value.def
                 \/ f.priceMin.value.v <= f.priceMax.value.v
      refined == IF ~aborted /\ ~ordered THEN {"priceMax"} ELSE {}
  IN IF bad \cup refined = {}
     THEN [success |-> TRUE, data |-> [k \in QueryFields |-> f[k].value]]
     ELSE [success |-> FALSE, errors |-> bad \cup refined]

\* SearchQuery.safeParse: the refinement on the object runs unless a field
\* failed with a type error; its issue goes under priceMin.
SearchQuery(query) ==
  LET f == [name |-> textFilter(query.name),
            categoryId |-> textFilter(query.categoryId),
            priceMin |-> priceFilter(query.priceMin),
            priceMax |-> priceFilter(query.priceMax)]
      bad == { k \in QueryFields : f[k].issue # "" }
      aborted == \E k \in QueryFields : f[k].issue = "invalid_type"
      ordered == \/ ~f.priceMin.value.def
                 \/ ~f.priceMax.value.def
                 \/ f.priceMin.value.v <= f.priceMax.value.v
      refined == IF ~aborted /\ ~ordered THEN {"priceMin"} ELSE {}
  IN IF bad \cup refined = {}
     THEN [success |-> TRUE, data |-> [k \in QueryFields |-> f[k].value]]
     ELSE [success |-> FALSE, errors |-> bad \cup refined]

\* Variant: the upper price bound is exclusive.
matchesWhere_exclusiveMax(row, q) ==
  /\ q.name.def => \E i \in 0 .. (Len(row.name) - Len(q.name.v)) :
       toLowerCase(SubSeq(row.name, i + 1, i + Len(q.name.v)))
         = toLowerCase(q.name.v)
  /\ q.categoryId.def => << Digits[row.categoryId + 1] >> = q.categoryId.v
  /\ q.priceMin.def => row.price >= q.priceMin.v
  /\ q.priceMax.def => row.price < q.priceMax.v

\* name: { contains, mode: "insensitive" }
containsInsensitive(text, part) ==
  \E i \in 0 .. (Len(text) - Len(part)) :
    toLowerCase(SubSeq(text, i + 1, i + Len(part))) = toLowerCase(part)

\* The `where` built from the parsed query, applied to one row.
matchesWhere(row, q) ==
  /\ q.name.def => containsInsensitive(row.name, q.name.v)
  /\ q.categoryId.def => idString(row.categoryId) = q.categoryId.v
  /\ q.priceMin.def => row.price >= q.priceMin.v
  /\ q.priceMax.def => row.price <= q.priceMax.v

search(db, cookie, query) ==
  LET auth == requireAuth(db, cookie)
      parsed == SearchQuery(query)
  IN IF ~auth.ok THEN Answer(auth.response, db)
     ELSE IF ~parsed.success THEN Answer(Invalid(parsed.errors), db)
     ELSE Answer(
       Listed({ i \in sweetFindMany(db) :
                  matchesWhere(db.sweets[i], parsed.data) }), db)

----------------------------------------------------------------------------
(* Requests handled one at a time: one action per route, the whole handler *)

Slots == {1, 2}
Idle == [pc |-> "idle"]

\* What the client of the last request got, and from which route.
Sent(route, res) == [route |-> route] @@ res

Init ==
  /\ users = SeedUsers
  /\ categories = << >>
  /\ sweets = << >>
  /\ response = Sent("", NoResponse)
  /\ req = [r \in Slots |-> Idle]
  /\ now = 0

\* The model stops creating rows and adding stock at its bounds.
WithinBounds(db) ==
  /\ Len(db.sweets) <= MaxSweets
  /\ Len(db.categories) <= MaxCats
  /\ \A i \in DOMAIN db.sweets :
       db.sweets[i] # Null => db.sweets[i].stock <= MaxStock

Commit(db) ==
  /\ users' = db.users
  /\ categories' = db.categories
  /\ sweets' = db.sweets

Apply(route, a) ==
  /\ WithinBounds(a.db) \/ a.db = Store
  /\ Commit(a.db)
  /\ response' = Sent(route, a.response)
  /\ UNCHANGED <<req, now>>

Purchase ==
  \E c \in Cookies, id \in SweetIds, q \in QuantityInputs :
    Apply("purchase", purchase(Store, c, id, q))

Restock ==
  \E c \in Cookies, id \in SweetIds, q \in QuantityInputs :
    Apply("restock", restock(Store, c, id, q))

Update ==
  \E c \in Cookies, id \in SweetIds, b \in UpdateBodies :
    Apply("update", update(Store, c, id, b))

Delete ==
  \E c \in Cookies, id \in SweetIds : Apply("delete", delete(Store, c, id))

Create ==
  \E c \in Cookies, b \in CreateBodies : Apply("create", create(Store, c, b))

CreateCategory ==
  \E c \in Cookies, n \in CategoryNames \cup {<< >>} :
    Apply("category", createCategory(Store, c, n))

List == \E c \in Cookies : Apply("list", list(Store, c))

ListCategories ==
  \E c \in Cookies : Apply("categories", listCategories(Store, c))

Next ==
  \/ Purchase \/ Restock \/ Update \/ Delete \/ Create \/ CreateCategory
  \/ List \/ ListCategories

Spec == Init /\ [][Next]_vars

\* An update that names a category.
UpdateCategory ==
  \E c \in Cookies, id \in SweetIds, cat \in CategoryIds :
    Apply("update", update(Store, c, id, [categoryId |-> cat]))

NextCategoryOf == Create \/ CreateCategory \/ UpdateCategory

SpecCategoryOf == Init /\ [][NextCategoryOf]_vars

----------------------------------------------------------------------------
(* Search on a catalog that is already there *)

Row(name, price, stock, categoryId, userId) ==
  [name |-> name, price |-> price, stock |-> stock,
   categoryId |-> categoryId, userId |-> userId]

SearchRows ==
  { Row(SweetName, 0, 1, 1, 1), Row(SweetName, 2, 1, 2, 2),
    Row(OtherSweetName, 1, 1, 1, 1), Row(<<"g", "u">>, 1, 0, 2, 2) }

NameParams == { QAbsent, QStr(<< >>), QStr(<<"U", "m">>), QArr }
CategoryParams == { QAbsent, QStr(<< >>), QStr(<<"1">>), QArr }
PriceParams ==
  { QAbsent, QStr(<< >>), QStr(<<"0">>), QStr(<<"1">>), QStr(<<"2">>),
    QStr(<<"-", "1">>), QStr(<<"x">>) }

SearchQueries ==
  [name : NameParams, categoryId : CategoryParams,
   priceMin : PriceParams, priceMax : PriceParams]

InitSearch ==
  /\ users = SeedUsers
  /\ categories = << [name |-> <<"C", "a">>], [name |-> <<"G", "u">>] >>
  /\ sweets \in UNION { [1 .. n -> SearchRows] : n \in 0 .. MaxSweets }
  /\ response = Sent("", NoResponse)
  /\ req = [r \in Slots |-> Idle]
  /\ now = 0

Search ==
  \E c \in Cookies, q \in SearchQueries :
    Apply("search", search(Store, c, q))

NextSearch == Search

SpecSearch == InitSearch /\ [][NextSearch]_vars

----------------------------------------------------------------------------
(* Two requests in flight.  A handler runs from one await on the store to  *)
(* the next in one step: Begin is the middleware chain and the validation  *)
(* (the users table requireAuth reads never changes here), Read is the     *)
(* handler's findUnique and the checks on the row, Write is its update or  *)
(* create and the response.  A finished request keeps its slot until the   *)
(* slot is taken again.                                                    *)

Reading(route, id, user, data) ==
  [pc |-> "read", route |-> route, id |-> id, user |-> user, data |-> data]

Writing(route, id, quantity, data) ==
  [pc |-> "write", route |-> route, id |-> id, quantity |-> quantity,
   data |-> data]

Done(route, id, quantity, res) ==
  [pc |-> "done", route |-> route, id |-> id, quantity |-> quantity,
   status |-> res.status]

Goto(r, slot) ==
  /\ req' = [req EXCEPT ![r] = slot]
  /\ UNCHANGED <<response, now>>

SameStore == UNCHANGED <<users, categories, sweets>>

\* Variant: the failed write is answered like a failed lookup.
InternalError_notFound == Json(404, "Not found")

\* prisma.sweet.update rejects when the row is gone; the error handler of
\* app.ts answers for the handler.
InternalError == Json(500, "Internal Server Error")

PurchaseBegin(r) ==
  /\ req[r] = Idle
  /\ \E c \in Cookies, id \in SweetIds, q \in QuantityInputs :
       LET e == purchaseEnter(Store, c, q)
       IN Goto(r, IF e.ok
                  THEN Reading("purchase", id, e.user, [quantity |-> e.quantity])
                  ELSE Done("purchase", id, 0, e.response))
  /\ SameStore

PurchaseRead(r) ==
  /\ req[r].pc = "read" /\ req[r].route = "purchase"
  /\ LET d == purchaseDecide(sweetFindUnique(Store, req[r].id),
                             req[r].data.quantity)
     IN Goto(r, IF d.ok
                THEN Writing("purchase", req[r].id, req[r].data.quantity,
                             d.data)
                ELSE Done("purchase", req[r].id, req[r].data.quantity,
                          d.response))
  /\ SameStore

PurchaseWrite(r) ==
  /\ req[r].pc = "write" /\ req[r].route = "purchase"
  /\ IF sweetExists(Store, req[r].id)
     THEN /\ WithinBounds(sweetUpdate(Store, req[r].id, req[r].data))
          /\ Commit(sweetUpdate(Store, req[r].id, req[r].data))
          /\ Goto(r, Done("purchase", req[r].id, req[r].quantity,
                          Json(200, "")))
     ELSE /\ SameStore
          /\ Goto(r, Done("purchase", req[r].id, req[r].quantity,
                          InternalError))

RestockBegin(r) ==
  /\ req[r] = Idle
  /\ \E c \in Cookies, id \in SweetIds, q \in QuantityInputs :
       LET e == restockEnter(Store, c, q)
       IN Goto(r, IF e.ok
                  THEN Reading("restock", id, e.user, [quantity |-> e.quantity])
                  ELSE Done("restock", id, 0, e.response))
  /\ SameStore

RestockRead(r) ==
  /\ req[r].pc = "read" /\ req[r].route = "restock"
  /\ LET d == restockDecide(sweetFindUnique(Store, req[r].id), req[r].user,
                            req[r].data.quantity)
     IN Goto(r, IF d.ok
                THEN Writing("restock", req[r].id, req[r].data.quantity,
                             d.data)
                ELSE Done("restock", req[r].id, req[r].data.quantity,
                          d.response))
  /\ SameStore

RestockWrite(r) ==
  /\ req[r].pc = "write" /\ req[r].route = "restock"
  /\ IF sweetExists(Store, req[r].id)
     THEN /\ WithinBounds(sweetUpdate(Store, req[r].id, req[r].data))
          /\ Commit(sweetUpdate(Store, req[r].id, req[r].data))
          /\ Goto(r, Done("restock", req[r].id, req[r].quantity,
                          Json(200, "")))
     ELSE /\ SameStore
          /\ Goto(r, Done("restock", req[r].id, req[r].quantity,
                          InternalError))

UpdateBegin(r) ==
  /\ req[r] = Idle
  /\ \E c \in Cookies, id \in SweetIds, b \in UpdateBodies :
       LET e == updateEnter(Store, c, b)
       IN Goto(r, IF e.ok THEN Reading("update", id, e.user, e.data)
                  ELSE Done("update", id, 0, e.response))
  /\ SameStore

UpdateRead(r) ==
  /\ req[r].pc = "read" /\ req[r].route = "update"
  /\ LET d == updateDecide(sweetFindUnique(Store, req[r].id), req[r].user)
     IN Goto(r, IF d.ok THEN Writing("update", req[r].id, 0, req[r].data)
                ELSE Done("update", req[r].id, 0, d.response))
  /\ SameStore

UpdateWrite(r) ==
  /\ req[r].pc = "write" /\ req[r].route = "update"
  /\ IF sweetExists(Store, req[r].id)
     THEN /\ WithinBounds(sweetUpdate(Store, req[r].id, req[r].data))
          /\ Commit(sweetUpdate(Store, req[r].id, req[r].data))
          /\ Goto(r, Done("update", req[r].id, 0, Json(200, "")))
     ELSE /\ SameStore
          /\ Goto(r, Done("update", req[r].id, 0, InternalError))

CreateBegin(r) ==
  /\ req[r] = Idle
  /\ \E c \in Cookies, b \in CreateBodies :
       LET e == createEnter(Store, c, b)
       IN Goto(r, IF e.ok THEN Reading("create", 0, e.user, e.data)
                  ELSE Done("create", 0, 0, e.response))
  /\ SameStore

CreateRead(r) ==
  /\ req[r].pc = "read" /\ req[r].route = "create"
  /\ LET d == createDecide(categoryFindUnique(Store, req[r].data.categoryId),
                           req[r].user, req[r].data)
     IN Goto(r, IF d.ok THEN Writing("create", 0, 0, d.data)
                ELSE Done("create", 0, 0, d.response))
  /\ SameStore

CreateWrite(r) ==
  /\ req[r].pc = "write" /\ req[r].route = "create"
  /\ WithinBounds(sweetCreate(Store, req[r].data))
  /\ Commit(sweetCreate(Store, req[r].data))
  /\ Goto(r, Done("create", 0, 0, Json(201, "")))

\* The connection of a finished request is used for the next one.
Finish(r) ==
  /\ req[r].pc = "done"
  /\ Goto(r, Idle)
  /\ SameStore

\* The catalog the concurrent requests start from: one category, one sweet
\* of the first admin.
InitConc ==
  /\ users = SeedUsers
  /\ categories = << [name |-> <<"C", "a">>] >>
  /\ sweets = << Row(SweetName, 1, 1, 1, 1) >>
  /\ response = Sent("", NoResponse)
  /\ req = [r \in Slots |-> Idle]
  /\ now = 0

NextConc ==
  \E r \in Slots :
    \/ PurchaseBegin(r) \/ PurchaseRead(r) \/ PurchaseWrite(r)
    \/ RestockBegin(r) \/ RestockRead(r) \/ RestockWrite(r)
    \/ UpdateBegin(r) \/ UpdateRead(r) \/ UpdateWrite(r)
    \/ CreateBegin(r) \/ CreateRead(r) \/ CreateWrite(r)
    \/ Finish(r)

SpecConc == InitConc /\ [][NextConc]_vars

\* Purchases only, each slot one request, on sweets that all start with the
\* same stock.
InitPurchase ==
  /\ users = SeedUsers
  /\ categories = << [name |-> <<"C", "a">>] >>
  /\ sweets = [i \in 1 .. MaxSweets |-> Row(SweetName, 1, MaxStock, 1, 1)]
  /\ response = Sent("", NoResponse)
  /\ req = [r \in Slots |-> Idle]
  /\ now = 0

NextPurchase ==
  \E r \in Slots : PurchaseBegin(r) \/ PurchaseRead(r) \/ PurchaseWrite(r)

SpecPurchase == InitPurchase /\ [][NextPurchase]_vars

DeleteBegin(r) ==
  /\ req[r] = Idle
  /\ \E c \in Cookies, id \in SweetIds :
       LET e == deleteEnter(Store, c)
       IN Goto(r, IF e.ok THEN Reading("delete", id, e.user, EmptyBody)
                  ELSE Done("delete", id, 0, e.response))
  /\ SameStore

DeleteRead(r) ==
  /\ req[r].pc = "read" /\ req[r].route = "delete"
  /\ LET d == deleteDecide(sweetFindUnique(Store, req[r].id), req[r].user)
     IN Goto(r, IF d.ok THEN Writing("delete", req[r].id, 0, EmptyBody)
                ELSE Done("delete", req[r].id, 0, d.response))
  /\ SameStore

\* prisma.sweet.delete rejects, like update, when the row is gone.
DeleteWrite(r) ==
  /\ req[r].pc = "write" /\ req[r].route = "delete"
  /\ IF sweetExists(Store, req[r].id)
     THEN /\ Commit(sweetDelete(Store, req[r].id))
          /\ Goto(r, Done("delete", req[r].id, 0, Json(200, "")))
     ELSE /\ SameStore
          /\ Goto(r, Done("delete", req[r].id, 0, InternalError))

\* Two requests on the sweets of the catalog, each slot one request.
NextRace ==
  \E r \in Slots :
    \/ PurchaseBegin(r) \/ PurchaseRead(r) \/ PurchaseWrite(r)
    \/ RestockBegin(r) \/ RestockRead(r) \/ RestockWrite(r)
    \/ UpdateBegin(r) \/ UpdateRead(r) \/ UpdateWrite(r)
    \/ DeleteBegin(r) \/ DeleteRead(r) \/ DeleteWrite(r)

SpecRace == InitConc /\ [][NextRace]_vars

CategoryBegin(r) ==
  /\ req[r] = Idle
  /\ \E c \in Cookies, n \in CategoryNames \cup {<< >>} :
       LET e == categoryEnter(Store, c, n)
       IN Goto(r, IF e.ok
                  THEN Reading("category", 0, e.user, [name |-> e.name])
                  ELSE Done("category", 0, 0, e.response))
  /\ SameStore

CategoryRead(r) ==
  /\ req[r].pc = "read" /\ req[r].route = "category"
  /\ LET d == categoryDecide(categoryFindMany(Store), req[r].data.name)
     IN Goto(r, IF d.ok THEN Writing("category", 0, 0, req[r].data)
                ELSE Done("category", 0, 0, d.response))
  /\ SameStore

CategoryWrite(r) ==
  /\ req[r].pc = "write" /\ req[r].route = "category"
  /\ Commit(categoryCreate(Store, req[r].data.name))
  /\ Goto(r, Done("category", 0, 0, Json(201, "")))

\* Two requests that create categories in an empty catalog, each slot one
\* request.
NextCategories ==
  \E r \in Slots : CategoryBegin(r) \/ CategoryRead(r) \/ CategoryWrite(r)

SpecCategories == Init /\ [][NextCategories]_vars

----------------------------------------------------------------------------
(* Accounts and sessions: register, login, me, logout and a route behind   *)
(* the session middleware, while the clock advances.                       *)

AuthCookies ==
  Cookies \cup { Token("ok", MaxUsers + 1) }
    \cup { Expiring(u, 1) : u \in {1, 3} }

InitAuth ==
  /\ users = SeedUsers
  /\ categories = << [name |-> <<"C", "a">>] >>
  /\ sweets = << Row(SweetName, 1, 1, 1, 1) >>
  /\ response = Sent("", NoResponse)
  /\ req = [r \in Slots |-> Idle]
  /\ now = 0

ApplyAuth(route, a) ==
  /\ Len(a.db.users) <= MaxUsers
  /\ Commit(a.db)
  /\ response' = Sent(route, a.response)
  /\ UNCHANGED <<req, now>>

Register ==
  \E b \in RegisterBodies : ApplyAuth("register", register(Store, b))

Login ==
  \E c \in AuthCookies, b \in LoginBodies :
    ApplyAuth("login", login(Store, c, b))

Me == \E c \in AuthCookies : ApplyAuth("me", me(Store, c))

Logout == \E c \in AuthCookies : ApplyAuth("logout", logout(Store, c))

ListAs == \E c \in AuthCookies : ApplyAuth("list", list(Store, c))

Tick ==
  /\ now < MaxTime
  /\ now' = now + 1
  /\ UNCHANGED <<users, categories, sweets, response, req>>

NextAuth == Register \/ Login \/ Me \/ Logout \/ ListAs \/ Tick

SpecAuth == InitAuth /\ [][NextAuth]_vars

----------------------------------------------------------------------------
(* The store fails: a call on the Prisma client rejects.  Inside            *)
(* requireAuth the call is in the try block, whose catch answers 401; in a  *)
(* handler nothing catches it and the error handler of app.ts answers.      *)
(* Every handler reads before it writes and writes once, so a request whose *)
(* store call fails leaves the store as it was.                             *)

SessionRoutes ==
  {"create", "update", "delete", "purchase", "restock", "category", "list",
   "search", "categories"}
AdminRoutes == {"create", "update", "delete", "restock", "category"}
OpenRoutes == {"register", "login"}

\* The response of a request during which the store failed.
Failed(route, res) == [failed |-> TRUE] @@ Sent(route, res)

\* prisma.user.findUnique rejects inside requireAuth, after the token has
\* verified.
AuthStoreFails ==
  /\ \E route \in SessionRoutes, c \in Cookies :
       /\ c # NoCookie /\ jwtVerify(c)
       /\ response' = Failed(route, Json(401, "Invalid authentication token"))
  /\ UNCHANGED <<users, categories, sweets, req, now>>

\* A store call of the handler rejects, after the middleware has let the
\* request through.
HandlerStoreFails ==
  /\ \E route \in SessionRoutes \cup OpenRoutes, c \in Cookies :
       /\ route \in SessionRoutes => requireAuth(Store, c).ok
       /\ route \in AdminRoutes
            => requireAdmin(requireAuth(Store, c).user).ok
       /\ response' = Failed(route, InternalError)
  /\ UNCHANGED <<users, categories, sweets, req, now>>

NextFail ==
  \/ Create \/ CreateCategory \/ Purchase \/ List
  \/ AuthStoreFails \/ HandlerStoreFails

SpecFail == Init /\ [][NextFail]_vars

----------------------------------------------------------------------------
(* Properties.  The vocabulary of the statements, defined on the request   *)
(* and the store and not through the handlers.                             *)

Authenticated(c) == c.k = "token" /\ c.sig = "ok" /\ c.sub \in DOMAIN users
IsAdmin(c) == Authenticated(c) /\ users[c.sub].role = "ADMIN"
PositiveInteger(q) == q.k \in {"number", "numeric-string"} /\ q.v >= 1
SweetExists(id) == id \in DOMAIN sweets /\ sweets[id] # Null
Owns(c, id) == sweets[id].userId = c.sub

SameLetter(a, b) ==
  \/ a = b
  \/ {a, b} \in { {"A", "a"}, {"B", "b"}, {"C", "c"}, {"G", "g"}, {"U", "u"} }

EqualIgnoringCase(s, t) ==
  Len(s) = Len(t) /\ \A i \in DOMAIN s : SameLetter(s[i], t[i])

\* C3: a purchase by an authenticated user of a positive integer quantity
\* greater than the sweet's stock answers 400 "Insufficient stock" and
\* leaves the whole store as it was.
C3_InsufficientStockRejected ==
  \A c \in Cookies, id \in SweetIds, q \in QuantityInputs :
    ( /\ Authenticated(c) /\ PositiveInteger(q)
      /\ SweetExists(id) /\ q.v > sweets[id].stock )
    => LET a == purchase(Store, c, id, q)
       IN a.response = Json(400, "Insufficient stock") /\ a.db = Store

C3_Witness ==
  /\ response.route = "purchase"
  /\ response.status = 400
  /\ response.error = "Insufficient stock"

\* C4: a purchase by any authenticated user (any role, owner or not) of a
\* positive integer quantity q <= stock answers 200, lowers that sweet's
\* stock by exactly q and changes nothing else in the store.
C4_PurchaseDecrementsOnlyStock ==
  \A c \in Cookies, id \in SweetIds, q \in QuantityInputs :
    ( /\ Authenticated(c) /\ PositiveInteger(q)
      /\ SweetExists(id) /\ q.v <= sweets[id].stock )
    => LET a == purchase(Store, c, id, q)
       IN /\ a.response.status = 200
          /\ a.db = [Store EXCEPT !.sweets[id].stock = @ - q.v]

C4_Witness ==
  /\ response.route = "purchase"
  /\ response.status = 200
  /\ \E i, j \in DOMAIN sweets : i # j /\ sweets[i] # Null /\ sweets[j] # Null

\* C5: a restock by the sweet's owner, an ADMIN, of a positive integer
\* quantity q answers 200 and sets the stock to the previous stock plus q.
C5_RestockAddsExactly ==
  \A c \in Cookies, id \in SweetIds, q \in QuantityInputs :
    ( /\ IsAdmin(c) /\ PositiveInteger(q)
      /\ SweetExists(id) /\ Owns(c, id) )
    => LET a == restock(Store, c, id, q)
       IN /\ a.response.status = 200
          /\ a.db.sweets[id].stock = sweets[id].stock + q.v

C5_Witness ==
  /\ response.route = "restock"
  /\ response.status = 200
  /\ \E i \in DOMAIN sweets : sweets[i] # Null /\ sweets[i].stock = MaxStock

\* C6 (as claimed): update, delete and restock of an existing sweet by an
\* ADMIN who is not its owner answer 403 and leave the store unchanged,
\* whatever the body is.
C6_NonOwnerAlwaysForbidden ==
  \A c \in Cookies, id \in SweetIds :
    (IsAdmin(c) /\ SweetExists(id) /\ ~Owns(c, id))
    => /\ \A b \in UpdateBodies :
            update(Store, c, id, b) = Answer(
              Json(403, "Only sweet owner allowed to update"), Store)
       /\ delete(Store, c, id) = Answer(
            Json(403, "Only sweet owner allowed to delete"), Store)
       /\ \A q \in QuantityInputs :
            restock(Store, c, id, q) = Answer(
              Json(403, "Only sweet owner allowed to restock"), Store)

Rejected401(a) == a.response.status = 401 /\ a.db = Store

\* C7: a catalog-mutating request without an auth-token cookie, with a token
\* that fails verification or with a token of a user that does not exist
\* answers 401 whatever its body and target are, and changes nothing.
C7_UnauthenticatedRejectedFirst ==
  \A c \in Cookies :
    ~Authenticated(c)
    => /\ \A b \in CreateBodies : Rejected401(create(Store, c, b))
       /\ \A n \in CategoryNames \cup {<< >>} :
            Rejected401(createCategory(Store, c, n))
       /\ \A id \in SweetIds :
            /\ Rejected401(delete(Store, c, id))
            /\ \A b \in UpdateBodies : Rejected401(update(Store, c, id, b))
            /\ \A q \in QuantityInputs :
                 /\ Rejected401(purchase(Store, c, id, q))
                 /\ Rejected401(restock(Store, c, id, q))

C7_Witness ==
  /\ response.status = 401
  /\ response.route \in {"create", "update", "delete", "purchase", "restock",
                         "category"}
  /\ \E i \in DOMAIN sweets : sweets[i] # Null

\* C9: create category by an ADMIN with a name answers 409 and creates
\* nothing when an existing category has that name ignoring letter case, and
\* otherwise answers 201 and adds exactly one category, with that name.
C9_CategoryNameConflict ==
  \A c \in Cookies, n \in CategoryNames :
    IsAdmin(c)
    => LET a == createCategory(Store, c, n)
       IN IF \E i \in DOMAIN categories :
               EqualIgnoringCase(categories[i].name, n)
          THEN a.response.status = 409 /\ a.db = Store
          ELSE /\ a.response.status = 201
               /\ a.db = [Store EXCEPT
                            !.categories = Append(@, [name |-> n])]

C9_Witness == response.route = "category" /\ response.status = 409

\* C1: every sweet has stock >= 0 in every state, also while the reads and
\* the writes of create, update, purchase and restock requests interleave.
C1_StockNeverNegative ==
  \A i \in DOMAIN sweets : sweets[i] # Null => sweets[i].stock >= 0

\* Two purchases of one sweet interleaved: one has answered 200, the other
\* is about to write a stock computed from what it read before.
C1_Witness ==
  \E r1, r2 \in Slots :
    /\ req[r1].pc = "done" /\ req[r1].route = "purchase"
    /\ req[r1].status = 200
    /\ req[r2].pc = "write" /\ req[r2].route = "purchase"
    /\ req[r2].id = req[r1].id
    /\ req[r2].data.stock + req[r2].quantity # sweets[req[r2].id].stock

\* C2 (as claimed): two concurrent purchases of q1 and q2 of the same sweet
\* that both answer 200 leave its stock at the initial stock - q1 - q2.
C2_NoLostUpdate ==
  \A r1, r2 \in Slots :
    ( /\ r1 # r2
      /\ req[r1].pc = "done" /\ req[r2].pc = "done"
      /\ req[r1].status = 200 /\ req[r2].status = 200
      /\ req[r1].id = req[r2].id )
    => sweets[req[r1].id].stock
         = MaxStock - req[r1].quantity - req[r2].quantity

Rejected403(a) == a.response.status = 403 /\ a.db = Store

TurnedAway(a) == a.response.status \in {401, 403}

\* C8: a user whose role is not ADMIN gets 403 from create sweet, update,
\* delete, restock and create category, whatever the body and the target
\* are, and the store stays as it was; list, search, purchase and list
\* categories do not turn the same user away.
C8_NonAdminForbidden ==
  \A c \in Cookies :
    (Authenticated(c) /\ ~IsAdmin(c))
    => /\ \A b \in CreateBodies : Rejected403(create(Store, c, b))
       /\ \A n \in CategoryNames \cup {<< >>} :
            Rejected403(createCategory(Store, c, n))
       /\ \A id \in SweetIds :
            /\ Rejected403(delete(Store, c, id))
            /\ \A b \in UpdateBodies : Rejected403(update(Store, c, id, b))
            /\ \A q \in QuantityInputs :
                 /\ Rejected403(restock(Store, c, id, q))
                 /\ ~TurnedAway(purchase(Store, c, id, q))
       /\ list(Store, c).response.status = 200
       /\ listCategories(Store, c).response.status = 200
       /\ \A q \in SearchQueries : ~TurnedAway(search(Store, c, q))

C8_Witness ==
  /\ response.status = 403
  /\ response.error = "Admin privilege required"
  /\ \E i \in DOMAIN sweets : sweets[i] # Null

\* A price parameter that is a decimal numeral, and its value.
Numerals ==
  { <<QStr(<<"0">>), 0>>, <<QStr(<<"1">>), 1>>, <<QStr(<<"2">>), 2>>,
    <<QStr(<<"-", "1">>), 0 - 1>> }

MinAboveMax(q) ==
  \E a, b \in Numerals :
    q.priceMin = a[1] /\ q.priceMax = b[1] /\ a[2] > b[2]

PriceOrderRejected(a) ==
  /\ a.response.status = 400
  /\ "priceMin" \in a.response.errors
  /\ a.response.sweets = {}

\* C10 (as claimed): an authenticated search with priceMin > priceMax
\* answers 400 with a message under priceMin and no sweets, whatever the name
\* and categoryId parameters are.
C10_PriceOrderAnyFilters ==
  \A c \in Cookies, q \in SearchQueries :
    (Authenticated(c) /\ MinAboveMax(q))
    => PriceOrderRejected(search(Store, c, q))

\* C10 (amended): the same, for name and categoryId parameters that are
\* absent or one string each; with an array for either, the answer is still
\* 400 without sweets.
C10_PriceOrderStringFilters ==
  \A c \in Cookies, q \in SearchQueries :
    (Authenticated(c) /\ MinAboveMax(q))
    => LET a == search(Store, c, q)
       IN /\ a.response.status = 400 /\ a.response.sweets = {}
          /\ (q.name # QArr /\ q.categoryId # QArr)
               => "priceMin" \in a.response.errors

C10_Witness ==
  /\ response.route = "search"
  /\ response.status = 400
  /\ response.errors = {"priceMin"}
  /\ \E i \in DOMAIN sweets : sweets[i].price = 2

----------------------------------------------------------------------------
(* Search filters, as the statements read them *)

\* A categoryId parameter that is the decimal numeral of a row id.
IdNumerals == { <<QStr(<<"1">>), 1>>, <<QStr(<<"2">>), 2>> }

NonNegativeNumeral(p) == \E a \in Numerals : a[1] = p /\ a[2] >= 0

ValueOf(p) == (CHOOSE a \in Numerals : a[1] = p)[2]

NonEmptyText(p) == p.k = "string" /\ p.s # << >>

\* Every supplied filter has a proper value and the bounds are in order.
WellFormed(q) ==
  /\ q.name = QAbsent \/ NonEmptyText(q.name)
  /\ q.categoryId = QAbsent \/ NonEmptyText(q.categoryId)
  /\ q.priceMin = QAbsent \/ NonNegativeNumeral(q.priceMin)
  /\ q.priceMax = QAbsent \/ NonNegativeNumeral(q.priceMax)
  /\ (q.priceMin # QAbsent /\ q.priceMax # QAbsent)
       => ValueOf(q.priceMin) <= ValueOf(q.priceMax)

ContainsIgnoringCase(text, part) ==
  \E i \in 0 .. (Len(text) - Len(part)) :
    EqualIgnoringCase(SubSeq(text, i + 1, i + Len(part)), part)

Satisfies(row, q) ==
  /\ q.name # QAbsent => ContainsIgnoringCase(row.name, q.name.s)
  /\ q.categoryId # QAbsent
       => \E a \in IdNumerals : a[1] = q.categoryId /\ a[2] = row.categoryId
  /\ q.priceMin # QAbsent => row.price >= ValueOf(q.priceMin)
  /\ q.priceMax # QAbsent => row.price <= ValueOf(q.priceMax)

NoFilters == [k \in QueryFields |-> QAbsent]

\* C11: an authenticated search with well-formed filters answers 200 with
\* exactly the sweets that satisfy every supplied filter (name: substring
\* ignoring case; categoryId: equal; priceMin, priceMax: inclusive), an
\* absent filter constrains nothing, and with no filter at all the sweets
\* returned are those the list operation returns.
C11_SearchIsConjunction ==
  \A c \in Cookies :
    Authenticated(c)
    => /\ \A q \in SearchQueries :
            WellFormed(q)
            => LET a == search(Store, c, q)
               IN /\ a.response.status = 200
                  /\ a.response.sweets
                       = { i \in DOMAIN sweets :
                             SweetExists(i) /\ Satisfies(sweets[i], q) }
       /\ search(Store, c, NoFilters).response.sweets
            = list(Store, c).response.sweets

\* A search with filters has answered with some of the sweets, not all.
C11_Witness ==
  /\ response.route = "search"
  /\ response.status = 200
  /\ response.sweets # {}
  /\ response.sweets # DOMAIN sweets
  /\ \E i, j \in DOMAIN sweets : sweets[i].price = 2 /\ sweets[j].price = 1

\* C12 (as claimed): for each of the four search filters, supplying it as an
\* empty string gives the same answer as not supplying it.
C12_EmptyStringIsAbsent ==
  \A c \in Cookies, q \in SearchQueries, f \in QueryFields :
    (Authenticated(c) /\ q[f] = QStr(<< >>))
    => search(Store, c, q).response
         = search(Store, c, [q EXCEPT ![f] = QAbsent]).response

\* C13: list sweets answers 401 without a valid session and, to an
\* authenticated user of any role, 200 with every sweet of the store,
\* whoever created it.
C13_ListReturnsEverySweet ==
  \A c \in Cookies :
    LET a == list(Store, c)
    IN IF Authenticated(c)
       THEN /\ a.response.status = 200
            /\ a.response.sweets = { i \in DOMAIN sweets : SweetExists(i) }
       ELSE a.response.status = 401 /\ a.response.sweets = {}

C13_Witness ==
  /\ response.route = "list"
  /\ response.status = 200
  /\ \E i, j \in response.sweets : sweets[i].userId # sweets[j].userId

\* A body that has every field of a sweet, each with a proper value.
ValidSweet(b) ==
  /\ DOMAIN b = {"name", "price", "stock", "categoryId"}
  /\ Len(b.name) >= 1 /\ b.price >= 0 /\ b.stock >= 0

\* C14: create sweet by an ADMIN with a valid payload answers 201 and adds
\* one sweet, owned by that admin, when categoryId names an existing
\* category; otherwise it answers 400 and stores nothing.
C14_CreateChecksCategory ==
  \A c \in Cookies, b \in CreateBodies :
    (IsAdmin(c) /\ ValidSweet(b))
    => LET a == create(Store, c, b)
       IN IF b.categoryId \in DOMAIN categories
          THEN /\ a.response.status = 201
               /\ a.db = [Store EXCEPT !.sweets =
                            Append(@, [name |-> b.name, price |-> b.price,
                                       stock |-> b.stock,
                                       categoryId |-> b.categoryId,
                                       userId |-> c.sub])]
          ELSE a.response.status = 400 /\ a.db = Store

C14_Witness ==
  /\ response.route = "create"
  /\ response.status = 201
  /\ sweets # << >>
  /\ sweets[Len(sweets)] # Null
  /\ sweets[Len(sweets)].userId = 2

----------------------------------------------------------------------------
(* Accounts and sessions, as the statements read them *)

\* The cookie holds a token signed by the server that has not expired and
\* names an existing user.
SessionValid(c) ==
  /\ c.k = "token" /\ c.sig = "ok"
  /\ c.sub \in DOMAIN users
  /\ \A t \in 0 .. now : "exp" \in DOMAIN c => t < c.exp

\* C15: the session middleware lets a request through, with the user the
\* token names attached, exactly when the cookie holds a token that verifies
\* and names an existing user; in every other case it answers 401; and it
\* never changes the store.
C15_SessionMiddleware ==
  \A c \in AuthCookies :
    LET r == requireAuth(Store, c)
    IN /\ r.ok <=> SessionValid(c)
       /\ r.ok => r.user.id = c.sub /\ r.user.role = users[c.sub].role
       /\ ~r.ok => r.response.status = 401
       /\ list(Store, c).db = Store

\* A route behind the middleware has turned away a token that has expired,
\* after an account was registered.
C15_Witness ==
  /\ response.route = "list"
  /\ response.status = 401
  /\ response.error = "Invalid authentication token"
  /\ now >= 1
  /\ Len(users) > Len(SeedUsers)

KnownAddresses == {EmailA, EmailB, EmailU, EmailN}

ValidLogin(b) ==
  /\ DOMAIN b = {"email", "password"}
  /\ b.email \in KnownAddresses
  /\ b.password # << >>

CredentialsOf(b) ==
  { i \in DOMAIN users :
      users[i].email = b.email /\ users[i].password = bcryptHash(b.password) }

\* C16: login answers, in this order: 400 'Already authenticated' and no
\* cookie when the request has an auth-token entry, whatever the token and
\* the body are; else 400 for an invalid body; else 401 for an unknown
\* e-mail or a wrong password; else 200 with an auth-token cookie naming the
\* user.  The store is never changed.
C16_LoginOrder ==
  \A c \in AuthCookies, b \in LoginBodies :
    LET a == login(Store, c, b)
    IN /\ a.db = Store
       /\ IF c # NoCookie
          THEN /\ a.response.status = 400
               /\ a.response.error = "Already authenticated"
               /\ a.response.setCookie = NoCookie
          ELSE IF ~ValidLogin(b)
          THEN /\ a.response.status = 400
               /\ a.response.errors # {}
               /\ a.response.setCookie = NoCookie
          ELSE IF CredentialsOf(b) = {}
          THEN a.response.status = 401 /\ a.response.setCookie = NoCookie
          ELSE /\ a.response.status = 200
               /\ a.response.setCookie.k = "token"
               /\ a.response.setCookie.sig = "ok"
               /\ a.response.setCookie.sub \in CredentialsOf(b)

\* A login has succeeded for an account registered in this run.
C16_Witness ==
  /\ response.route = "login"
  /\ response.status = 200
  /\ response.setCookie.k = "token"
  /\ response.setCookie.sub > Len(SeedUsers)

ValidRegistration(b) ==
  /\ {"email", "name", "password"} \subseteq DOMAIN b
  /\ b.email \in KnownAddresses
  /\ b.name # << >>
  /\ Len(b.password) >= 8
  /\ "role" \in DOMAIN b => b.role \in {"USER", "ADMIN"}

EmailTaken(b) ==
  "email" \in DOMAIN b /\ \E i \in DOMAIN users : users[i].email = b.email

\* C17: register with the e-mail of an existing user creates no user and
\* sets no cookie, and answers 409 when the body is otherwise valid; no two
\* users ever share an e-mail; a valid register with a new e-mail answers
\* 201, sets the auth-token cookie of the new user and stores the role
\* asked for, USER when none was.
C17_RegisterUniqueEmail ==
  /\ \A i, j \in DOMAIN users : users[i].email = users[j].email => i = j
  /\ \A b \in RegisterBodies :
       LET a == register(Store, b)
       IN IF EmailTaken(b)
          THEN /\ a.db = Store
               /\ a.response.setCookie = NoCookie
               /\ ValidRegistration(b) => a.response.status = 409
          ELSE ValidRegistration(b)
               => /\ a.response.status = 201
                  /\ a.response.setCookie = Token("ok", Len(users) + 1)
                  /\ Len(a.db.users) = Len(users) + 1
                  /\ SubSeq(a.db.users, 1, Len(users)) = users
                  /\ a.db.users[Len(users) + 1].email = b.email
                  /\ a.db.users[Len(users) + 1].role
                       = IF "role" \in DOMAIN b /\ b.role = "ADMIN"
                         THEN "ADMIN" ELSE "USER"
                  /\ a.db.sweets = sweets /\ a.db.categories = categories

\* A second register with the e-mail of an account made in this run.
C17_Witness ==
  /\ response.route = "register"
  /\ response.status = 409
  /\ Len(users) > Len(SeedUsers)

\* C18: a logout revokes nothing: every token the session middleware
\* accepted before a logout request it accepts after it, and so does
\* GET /auth/me.
C18_LogoutRevokesNothing ==
  [][ (response'.route = "logout" /\ now' = now)
      => \A c \in AuthCookies :
           requireAuth(Store, c).ok
           => /\ (requireAuth(Store, c).ok)'
              /\ (me(Store, c).response.status)' = 200 ]_vars

\* After a logout, the token issued to the account registered in this run
\* is accepted.
C18_Witness ==
  /\ response.route = "logout"
  /\ Len(users) > Len(SeedUsers)
  /\ requireAuth(Store, jwtSign(Len(users))).ok
  /\ now >= 1

\* C20 (as claimed): every token issued by register or login carries an
\* expiry, and once the expiry has passed the token is answered 401 by the
\* session middleware and by GET /auth/me.
C20_IssuedTokensExpire ==
  (response.route \in {"register", "login"} /\ response.setCookie.k = "token")
  => /\ "exp" \in DOMAIN response.setCookie
     /\ now >= response.setCookie.exp
          => /\ ~requireAuth(Store, response.setCookie).ok
             /\ me(Store, response.setCookie).response.status = 401

\* C19 (as claimed): a request during which the store fails is answered
\* 503, whichever operation it is, and the store is not written again.
C19_StoreFailureIs503 ==
  "failed" \in DOMAIN response => response.status = 503

----------------------------------------------------------------------------
(* Order of the checks, frames and lifetimes of rows *)

\* An update body that passes validation, as the statements read it.
ValidUpdate(b) ==
  /\ DOMAIN b \cap {"name", "price", "stock", "categoryId"} # {}
  /\ "price" \in DOMAIN b => b.price >= 0
  /\ "stock" \in DOMAIN b => b.stock >= 0

\* C21: for an id that names no sweet, an ADMIN with a valid payload gets
\* 404 from update, delete and restock and any authenticated user gets 404
\* from purchase, never 403; a non-ADMIN gets 403 from update, delete and
\* restock for the same id.
C21_LookupBeforeOwnership ==
  \A c \in Cookies, id \in SweetIds :
    (Authenticated(c) /\ ~SweetExists(id))
    => /\ \A q \in QuantityInputs :
            PositiveInteger(q)
            => /\ purchase(Store, c, id, q).response.status = 404
               /\ restock(Store, c, id, q).response.status
                    = IF IsAdmin(c) THEN 404 ELSE 403
       /\ \A b \in UpdateBodies :
            ValidUpdate(b)
            => update(Store, c, id, b).response.status
                 = IF IsAdmin(c) THEN 404 ELSE 403
       /\ delete(Store, c, id).response.status
            = IF IsAdmin(c) THEN 404 ELSE 403

\* A delete of an id whose sweet was deleted before has answered 404.
C21_Witness ==
  /\ response.route = "delete"
  /\ response.status = 404
  /\ \E i \in DOMAIN sweets : sweets[i] = Null

\* C22: a restock of r by the owner and a purchase of q on the same sweet
\* that run concurrently and are both answered 200 leave the stock at the
\* initial stock plus r minus q.
C22_RestockAtomic ==
  \A r \in Slots, p \in Slots :
    ( /\ req[r].pc = "done" /\ req[r].route = "restock"
      /\ req[r].status = 200
      /\ req[p].pc = "done" /\ req[p].route = "purchase"
      /\ req[p].status = 200
      /\ req[r].id = req[p].id )
    => sweets[req[r].id].stock = 1 + req[r].quantity - req[p].quantity

\* C23: in every reachable state no two categories have names that are
\* equal ignoring case, also when two create-category requests interleave
\* their duplicate check and their insert.
C23_NoCaseDuplicates ==
  \A i \in DOMAIN categories, j \in DOMAIN categories :
    i # j => ~EqualIgnoringCase(categories[i].name, categories[j].name)

\* C24: the owner of a sweet is fixed at creation: no update, purchase or
\* restock, whatever its body (an update body carrying userId included),
\* changes the userId of a sweet.
C24_OwnerFixed ==
  [][\A i \in DOMAIN sweets :
       (sweets[i] # Null /\ sweets'[i] # Null)
       => sweets'[i].userId = sweets[i].userId]_vars

\* An update was answered 200 and left a sweet of the first admin with an
\* empty stock.
C24_Witness ==
  /\ response.route = "update"
  /\ response.status = 200
  /\ \E i \in DOMAIN sweets :
       sweets[i] # Null /\ sweets[i].stock = 0 /\ sweets[i].userId = 1

\* What Number() turns into a positive integer: such a number, a numeral of
\* one in a string, or true (a boolean carries 1 for true, 0 for false).
CoercesToPositiveInteger(q) ==
  q.k \in {"number", "numeric-string", "boolean"} /\ q.v >= 1

RejectsQuantity(a) ==
  /\ a.response.status = 400
  /\ a.response.errors = {"quantity"}
  /\ a.db = Store

Deleted(id) == id \in DOMAIN sweets /\ sweets[id] = Null

\* The searches a deleted sweet is looked for in: no filter, and a lowest
\* price of zero.
GoneQueries == { NoFilters, [NoFilters EXCEPT !.priceMin = QStr(<<"0">>)] }

\* No list or search shows a deleted sweet, and its id is answered 404.
GoneForGood ==
  \A id \in SweetIds, c \in Cookies :
    (Deleted(id) /\ Authenticated(c))
    => /\ id \notin list(Store, c).response.sweets
       /\ \A q \in GoneQueries :
            id \notin search(Store, c, q).response.sweets
       /\ purchase(Store, c, id, Qty("number", 1)).response.status = 404
       /\ IsAdmin(c)
          => /\ delete(Store, c, id).response.status = 404
             /\ restock(Store, c, id, Qty("number", 1)).response.status = 404
             /\ \A b \in UpdateBodies :
                  ValidUpdate(b)
                  => update(Store, c, id, b).response.status = 404

\* A delete by the owner answers 200, removes the sweet and nothing else.
DeleteRemovesOne ==
  \A id \in SweetIds, c \in Cookies :
    (SweetExists(id) /\ IsAdmin(c) /\ Owns(c, id))
    => LET a == delete(Store, c, id)
       IN /\ a.response.status = 200
          /\ a.db.users = users /\ a.db.categories = categories
          /\ DOMAIN a.db.sweets = DOMAIN sweets
          /\ a.db.sweets[id] = Null
          /\ \A j \in DOMAIN sweets \ {id} : a.db.sweets[j] = sweets[j]

\* C26: after a delete by the owner is answered 200 the sweet is gone: it
\* is in no later list or search, every later update, delete, purchase or
\* restock on its id is answered 404 (for a caller that passes the
\* authentication and role checks), and all other sweets are unchanged.
C26_DeletedStaysGone ==
  /\ [](GoneForGood /\ DeleteRemovesOne)
  /\ [][\A id \in DOMAIN sweets : Deleted(id) => sweets'[id] = Null]_vars

\* A delete was answered 200: one sweet is gone, another is still there.
C26_Witness ==
  /\ response.route = "delete"
  /\ response.status = 200
  /\ \E i \in DOMAIN sweets, j \in DOMAIN sweets :
       sweets[i] = Null /\ sweets[j] # Null

WritesSweet == {"purchase", "restock", "update", "delete"}

\* The write of a request whose sweet is gone is answered 500 and writes
\* nothing.
FailedWriteIs500(r) ==
  ( /\ req[r].pc = "write" /\ req[r].route \in WritesSweet
    /\ Deleted(req[r].id)
    /\ req'[r] # req[r] )
  => /\ req'[r].pc = "done"
     /\ req'[r].status = 500
     /\ UNCHANGED <<users, categories, sweets>>

\* C27: a request whose store write fails unexpectedly (a purchase, restock
\* or update whose sweet a concurrent delete removes between its read and
\* its write) still receives exactly one response, a generic 500 error, and
\* the deleted sweet is not created again.
C27_FailedWriteAnswered500 ==
  /\ [][\A r \in Slots :
          /\ FailedWriteIs500(r)
          /\ req[r].pc = "done" => req'[r] = req[r]]_vars
  /\ [][\A id \in DOMAIN sweets : Deleted(id) => sweets'[id] = Null]_vars
  /\ [](\A r \in Slots :
          (req[r].pc = "done" /\ req[r].status = 500)
          => req[r].route \in WritesSweet /\ Deleted(req[r].id))

\* A purchase, restock or update found its sweet deleted at its write and
\* was answered 500.
C27_Witness ==
  \E r \in Slots :
    /\ req[r].pc = "done"
    /\ req[r].route \in {"purchase", "restock", "update"}
    /\ req[r].status = 500
    /\ Deleted(req[r].id)

\* C28: every sweet's categoryId names an existing category after any
\* sequence of create and update, an update by the owner that supplies a
\* categoryId included.
C28_CategoryExists ==
  \A i \in DOMAIN sweets :
    sweets[i] # Null => sweets[i].categoryId \in DOMAIN categories

NoPassword(u) == u # Null => "password" \notin DOMAIN u

\* C29: no response contains the stored password hash of a user: register,
\* login and /auth/me answer with the user without its password, and the
\* same holds for the user records embedded in the sweets that list returns.
C29_NoPasswordInResponses ==
  /\ \A b \in RegisterBodies : NoPassword(register(Store, b).response.user)
  /\ \A c \in AuthCookies :
       /\ \A b \in LoginBodies : NoPassword(login(Store, c, b).response.user)
       /\ NoPassword(me(Store, c).response.user)
       /\ \A u \in listUsers(Store, c) : NoPassword(u)

\* The searches of the frame check: every pair of price parameters, no
\* name and no category.
FrameQueries ==
  { q \in SearchQueries : q.name = QAbsent /\ q.categoryId = QAbsent }

\* An answer that is 2xx, or one of the rejections that leaves the store as
\* it is.
WritesOnlyOn2xx(a) ==
  \/ a.response.status \in {200, 201}
  \/ a.response.status \in {400, 401, 403, 404, 409} /\ a.db = Store

ReadsOnly(a) ==
  /\ a.response.status \in {200, 400, 401, 403, 404, 409}
  /\ a.db = Store

\* C30: the store changes only through a 2xx answer of register, create
\* category, create sweet, update, delete, purchase or restock; every 400,
\* 401, 403, 404 and 409, and every list, search, list-categories, /auth/me,
\* login and logout, leaves users, categories and sweets unchanged.
C30_FrameEffect ==
  /\ \A b \in RegisterBodies : WritesOnlyOn2xx(register(Store, b))
  /\ \A c \in Cookies :
       /\ ReadsOnly(list(Store, c))
       /\ ReadsOnly(listCategories(Store, c))
       /\ ReadsOnly(me(Store, c))
       /\ ReadsOnly(logout(Store, c))
       /\ \A b \in LoginBodies : ReadsOnly(login(Store, c, b))
       /\ \A q \in FrameQueries : ReadsOnly(search(Store, c, q))
       /\ \A n \in CategoryNames \cup {<< >>} :
            WritesOnlyOn2xx(createCategory(Store, c, n))
       /\ \A b \in CreateBodies : WritesOnlyOn2xx(create(Store, c, b))
       /\ \A id \in SweetIds :
            /\ WritesOnlyOn2xx(delete(Store, c, id))
            /\ \A b \in UpdateBodies : WritesOnlyOn2xx(update(Store, c, id, b))
            /\ \A q \in QuantityInputs :
                 /\ WritesOnlyOn2xx(purchase(Store, c, id, q))
                 /\ WritesOnlyOn2xx(restock(Store, c, id, q))

\* A delete by an admin who is not the owner was answered 403 and the sweet
\* is still there.
C30_Witness ==
  /\ response.route = "delete"
  /\ response.status = 403
  /\ response.error = "Only sweet owner allowed to delete"
  /\ \E i \in DOMAIN sweets : sweets[i] # Null

====
